---- MODULE Spec2Model ----
(***************************************************************************)
(* The Profile component of fe-exercise (pages/Profile): its React state,  *)
(* its event handlers and the json-server post store it talks to.          *)
(*                                                                         *)
(* Every handler is an async function: it runs to its first await, and     *)
(* each continuation runs when the awaited response arrives.  One action   *)
(* of the model is one such run-to-completion piece.  The continuation of  *)
(* `await getPosts(user)` runs in the same microtask checkpoint as the end *)
(* of getPosts, so no event can come between them: the list response and   *)
(* the tail of the finally block are one action.                           *)
(*                                                                         *)
(* The request of a command is served by the store in one step and its     *)
(* response is handled by the client in a later one, so that responses of  *)
(* overlapping commands can arrive in any order.  A call fails when the    *)
(* store answers non-2xx or the network drops the request or the response. *)
(*                                                                         *)
(* A post is its id, userId and postedAt; title and text are carried in    *)
(* the POST's body and are not read again.  The form's fields (newPost)    *)
(* are the input of the submit.                                            *)
(***************************************************************************)
EXTENDS Integers, Sequences, FiniteSets, TLC

VARIABLES
    storage,    \* localStorage["loggedInUser"]
    nav,        \* "mounting" before the mount effect, then "profile" or "/"
    user,       \* useState<User | null>: the user's id, or Null
    posts,      \* useState<Post[]>
    showModal,  \* useState(false)
    isLoading,  \* useState(false)
    error,      \* useState<string | null>
    success,    \* useState<string | null>
    cmds,       \* the async calls started so far, in start order
    store,      \* the posts collection of the remote store, in store order
    nextId,     \* the next id the store assigns
    hist,       \* history: the store at the last successful round trip
    last        \* history: the piece of a command the last step ran, if any

vars == <<storage, nav, user, posts, showModal, isLoading, error,
          success, cmds, store, nextId, hist, last>>

(***************************************************************************)
(* Bounds                                                                  *)
(***************************************************************************)
MaxCmds == 2        \* async calls started in one run (the mount's list included)
MaxInit == 1        \* posts in the store when the view mounts
MaxTime == 1        \* distinct postedAt instants
MaxListLen == 3     \* posts in the store under SpecList
MaxListTime == 3    \* distinct postedAt instants under SpecList
MaxRaceCmds == 2    \* commands started in one run under SpecRace

Null == "null"
Users == {"u1", "u2"}
Times == 1..MaxTime
\* Field values of the form: empty, whitespace only, and text.
DraftStrings == {<<>>, <<" ">>, <<"a">>}

LoadFailedMsg == "Failed to load posts."
RequiredMsg == "Both title and content are required."
AddedMsg == "Your post has been successfully added!"
DeletedMsg == "Your post has been successfully deleted!"

Post(i, u, t) == [id |-> i, userId |-> u, postedAt |-> t]
NoPost == Post(0, Null, 0)
NoBody == [userId |-> Null, title |-> <<>>, text |-> <<>>, postedAt |-> 0]

(***************************************************************************)
(* Pure helpers                                                            *)
(***************************************************************************)
Ids(s) == {s[k].id : k \in 1..Len(s)}

\* data.filter((post) => post.userId === user.id), mutated: no filter
FilterUserAll(s, u) == s

\* data.filter((post) => post.userId === user.id)
FilterUser(s, u) == SelectSeq(s, LAMBDA p : p.userId = u)

\* prevPosts.filter((post) => post.id !== postId), mutated: nothing removed
RemoveIdNone(s, pid) == s

\* prevPosts.filter((post) => post.id !== postId)
RemoveId(s, pid) == SelectSeq(s, LAMBDA p : p.id # pid)

\* The comparator of the sort: new Date(b.postedAt) - new Date(a.postedAt).
\* postedAt is held as the instant getTime() yields.
Compare(a, b) == b.postedAt - a.postedAt

\* Array.prototype.sort is stable: an element goes after every element that
\* does not compare greater than it.
RECURSIVE InsertSorted(_, _)
InsertSorted(p, s) ==
    IF s = <<>> THEN <<p>>
    ELSE IF Compare(s[1], p) <= 0 THEN <<s[1]>> \o InsertSorted(p, Tail(s))
    ELSE <<p>> \o s

\* mutated: an element goes before the elements that compare equal to it
RECURSIVE InsertSortedUnstable(_, _)
InsertSortedUnstable(p, s) ==
    IF s = <<>> THEN <<p>>
    ELSE IF Compare(s[1], p) < 0 THEN <<s[1]>> \o InsertSortedUnstable(p, Tail(s))
    ELSE <<p>> \o s

RECURSIVE SortUnstable(_)
SortUnstable(s) ==
    IF s = <<>> THEN <<>>
    ELSE InsertSortedUnstable(s[Len(s)], SortUnstable(SubSeq(s, 1, Len(s) - 1)))

\* mutated: the list is left in store order
SortNone(s) == s

\* .sort((a, b) => new Date(b.postedAt).getTime() - new Date(a.postedAt).getTime())
RECURSIVE SortPosts(_)
SortPosts(s) ==
    IF s = <<>> THEN <<>>
    ELSE InsertSorted(s[Len(s)], SortPosts(SubSeq(s, 1, Len(s) - 1)))

\* userPosts of getPosts
UserPosts(data, u) == SortPosts(FilterUser(data, u))

(***************************************************************************)
(* Async calls                                                             *)
(***************************************************************************)
\* kind : "list" (getPosts of the mount), "create", "delete", or "done"
\* phase: "mutReq"  the POST/DELETE is on its way to the store
\*        "mutResp" its response is on its way back
\*        "listReq" / "listResp" the same for GET /posts
Cmd(k, ph) ==
    [kind |-> k, phase |-> ph,
     alone |-> TRUE,      \* history: no other call was in flight meanwhile
     target |-> 0,        \* delete: the postId
     body |-> NoBody,     \* create: newPostData
     snap |-> <<>>,       \* create: `posts` as the handler's closure holds it
     mutOk |-> FALSE,     \* the POST/DELETE came back ok
     added |-> NoPost,    \* create: the post in the POST's response
     listOk |-> FALSE,    \* GET /posts came back ok
     data |-> <<>>]       \* the body of the GET's response

Done == Cmd("done", "done")

InFlight == {i \in 1..Len(cmds) : cmds[i].kind # "done"}
Idle == InFlight = {}

\* A call starts: the calls in flight are no longer alone.
Started(c) ==
    Append([i \in 1..Len(cmds) |->
              IF cmds[i].kind = "done" THEN cmds[i]
              ELSE [cmds[i] EXCEPT !.alone = FALSE]],
           [c EXCEPT !.alone = Idle])

NoDraft == [title |-> <<>>, text |-> <<>>]
Event(op) == [op |-> op, kind |-> "none", mutOk |-> FALSE, listOk |-> FALSE,
              alone |-> FALSE, target |-> 0, draft |-> NoDraft,
              hadError |-> FALSE]
NoEvent == Event("none")
EventOf(op, c) == [op |-> op, kind |-> c.kind, mutOk |-> c.mutOk,
                   listOk |-> c.listOk, alone |-> c.alone,
                   target |-> IF c.kind = "create" THEN c.added.id ELSE c.target,
                   draft |-> NoDraft,
                   hadError |-> error # Null]

RECURSIVE SeqsUpTo(_, _)
SeqsUpTo(S, n) ==
    IF n = 0 THEN {<<>>}
    ELSE LET shorter == SeqsUpTo(S, n - 1)
         IN  shorter \cup {Append(s, x) : s \in {t \in shorter : Len(t) = n - 1}, x \in S}

\* Stores of at most n posts; the store's ids are unique.
Stores(n, times) ==
    LET shapes == SeqsUpTo(Users \X times, n)
    IN  {[k \in 1..Len(s) |-> Post(k, s[k][1], s[k][2])] : s \in shapes}

InitWith(stores) ==
    /\ storage \in {Null, "corrupt", "u1"}
    /\ nav = "mounting"
    /\ user = Null
    /\ posts = <<>>
    /\ showModal = FALSE
    /\ isLoading = FALSE
    /\ error = Null
    /\ success = Null
    /\ cmds = <<>>
    /\ store \in stores
    /\ nextId = Len(store) + 1
    /\ hist = [synced |-> FALSE, store |-> <<>>, listOk |-> FALSE]
    /\ last = NoEvent

Init == InitWith(Stores(MaxInit, Times))

(***************************************************************************)
(* The view: mount effect and form handlers                                *)
(***************************************************************************)
\* The handlers exist while the profile is rendered with a user.
Rendered == nav = "profile" /\ user # Null

\* if (!storedUser) only, mutated: no try/catch around JSON.parse
UnusableIfAbsent(stored) == stored = Null

\* if (!storedUser), or JSON.parse(storedUser) throws
Unusable(stored) == stored \in {Null, "corrupt"}

\* useEffect(() => {...}, []) with no usable identity: navigate("/")
MountRedirect ==
    /\ nav = "mounting"
    /\ Unusable(storage)
    /\ nav' = "/"
    /\ last' = NoEvent
    /\ UNCHANGED <<storage, user, posts, showModal, isLoading, error,
                   success, cmds, store, nextId, hist>>

\* useEffect(() => {...}, []) with a stored user: setUser, getPosts(parsedUser)
MountLoad ==
    /\ nav = "mounting"
    /\ ~Unusable(storage)
    /\ nav' = "profile"
    /\ user' = storage
    /\ cmds' = Started(Cmd("list", "listReq"))
    /\ last' = NoEvent
    /\ UNCHANGED <<storage, posts, showModal, isLoading, error,
                   success, store, nextId, hist>>

\* handleModalToggle: "Add New Post", the modal's close button and backdrop
handleModalToggle ==
    /\ Rendered
    /\ showModal' = ~showModal
    /\ last' = NoEvent
    /\ UNCHANGED <<storage, nav, user, posts, isLoading, error,
                   success, cmds, store, nextId, hist>>

\* if (!newPost.title || !newPost.text): an empty string is falsy, mutated:
\* nothing is rejected
DraftMissingNever(d) == FALSE

\* if (!newPost.title || !newPost.text): an empty string is falsy
DraftMissing(d) == d.title = <<>> \/ d.text = <<>>

\* handlePostSubmit up to its first await.  newPost, the form's title and
\* text as typed (handleInputChange), is the input of the submit; the submit
\* button is disabled while isLoading.
SubmitWithin(cap) ==
    /\ Rendered
    /\ showModal
    /\ ~isLoading
    /\ \E newPost \in [title : DraftStrings, text : DraftStrings] :
         /\ last' = [Event("handlePostSubmit") EXCEPT !.draft = newPost]
         /\ IF DraftMissing(newPost)
            THEN /\ error' = RequiredMsg
                 /\ UNCHANGED <<isLoading, cmds>>
            ELSE /\ Len(cmds) < cap
                 /\ isLoading' = TRUE
                 /\ \E now \in Times :
                      cmds' = Started([Cmd("create", "mutReq") EXCEPT
                                 !.body = [userId |-> user, title |-> newPost.title,
                                           text |-> newPost.text, postedAt |-> now],
                                 !.snap = posts])
                 /\ UNCHANGED error
    /\ UNCHANGED <<storage, nav, user, posts, showModal, success,
                   store, nextId, hist>>

handlePostSubmit == SubmitWithin(MaxCmds)

\* handleDeletePost up to its first await: the Delete button of a displayed
\* post, which the open modal's backdrop covers.
DeleteWithin(cap) ==
    /\ Rendered
    /\ ~showModal
    /\ Len(cmds) < cap
    /\ \E k \in 1..Len(posts) :
          cmds' = Started([Cmd("delete", "mutReq") EXCEPT !.target = posts[k].id])
    /\ isLoading' = TRUE
    /\ last' = Event("handleDeletePost")
    /\ UNCHANGED <<storage, nav, user, posts, showModal, error,
                   success, store, nextId, hist>>

handleDeletePost == DeleteWithin(MaxCmds)

(***************************************************************************)
(* The remote store                                                        *)
(***************************************************************************)
Answer(i, c) == cmds' = [cmds EXCEPT ![i] = c]

\* POST /posts.  The call fails when the store refuses it or the network
\* drops it, before or after the store has acted.
ServePost(i) ==
    /\ cmds[i].kind = "create" /\ cmds[i].phase = "mutReq"
    /\ LET b == cmds[i].body
           p == Post(nextId, b.userId, b.postedAt)
       IN  \/ /\ store' = Append(store, p)
              /\ nextId' = nextId + 1
              /\ \/ Answer(i, [cmds[i] EXCEPT !.phase = "mutResp",
                                              !.mutOk = TRUE, !.added = p])
                 \/ Answer(i, [cmds[i] EXCEPT !.phase = "mutResp"])
           \/ /\ Answer(i, [cmds[i] EXCEPT !.phase = "mutResp"])
              /\ UNCHANGED <<store, nextId>>
    /\ last' = NoEvent
    /\ UNCHANGED <<storage, nav, user, posts, showModal, isLoading,
                   error, success, hist>>

\* DELETE /posts/{id}: 404 when the store has no such post.
ServeDelete(i) ==
    /\ cmds[i].kind = "delete" /\ cmds[i].phase = "mutReq"
    /\ \/ /\ cmds[i].target \in Ids(store)
          /\ store' = RemoveId(store, cmds[i].target)
          /\ \/ Answer(i, [cmds[i] EXCEPT !.phase = "mutResp", !.mutOk = TRUE])
             \/ Answer(i, [cmds[i] EXCEPT !.phase = "mutResp"])
       \/ /\ Answer(i, [cmds[i] EXCEPT !.phase = "mutResp"])
          /\ UNCHANGED store
    /\ last' = NoEvent
    /\ UNCHANGED <<storage, nav, user, posts, showModal, isLoading,
                   error, success, nextId, hist>>

\* GET /posts: the posts of all users, in store order.
ServeList(i) ==
    /\ cmds[i].phase = "listReq"
    /\ \/ Answer(i, [cmds[i] EXCEPT !.phase = "listResp",
                                    !.listOk = TRUE, !.data = store])
       \/ Answer(i, [cmds[i] EXCEPT !.phase = "listResp"])
    /\ last' = NoEvent
    /\ UNCHANGED <<storage, nav, user, posts, showModal, isLoading,
                   error, success, store, nextId, hist>>

(***************************************************************************)
(* The handlers' continuations                                             *)
(***************************************************************************)
Synced(h) == [h EXCEPT !.synced = TRUE, !.store = store]

\* setPosts([addedPost, ...posts]), mutated: the new post is not added
PrependNone(p, s) == s

\* setPosts([addedPost, ...posts]) with the `posts` of the render in which
\* the form was submitted
Prepend(p, s) == <<p>> \o s

\* mutated: a failed POST/DELETE is sent again
AfterMutationRetry(c) ==
    IF c.mutOk THEN [c EXCEPT !.phase = "listReq"] ELSE [c EXCEPT !.phase = "mutReq"]

\* finally { if (user) await getPosts(user) }: the re-list follows the
\* POST/DELETE whether it came back ok or not
AfterMutation(c) == [c EXCEPT !.phase = "listReq"]

\* mutated: an ok POST/DELETE leaves the error displayed
ErrorAfterMutationKeep(c) == error

\* mutated: the catch block shows the failure
ErrorAfterMutationShown(c) == IF c.mutOk THEN Null ELSE LoadFailedMsg

\* setError(null) after an ok POST/DELETE; the catch block only logs
ErrorAfterMutation(c) == IF c.mutOk THEN Null ELSE error

\* handlePostSubmit from the POST's response to `await getPosts(user)`
PostResponse(i) ==
    /\ cmds[i].kind = "create" /\ cmds[i].phase = "mutResp"
    /\ IF cmds[i].mutOk
       THEN /\ posts' = Prepend(cmds[i].added, cmds[i].snap)
            /\ success' = AddedMsg
            /\ hist' = Synced(hist)
       ELSE UNCHANGED <<posts, success, hist>>
    /\ error' = ErrorAfterMutation(cmds[i])
    /\ cmds' = [cmds EXCEPT ![i] = AfterMutation(cmds[i])]
    /\ last' = EventOf("PostResponse", cmds[i])
    /\ UNCHANGED <<storage, nav, user, showModal, isLoading, store,
                   nextId>>

\* handleDeletePost from the DELETE's response to `await getPosts(user)`
DeleteResponse(i) ==
    /\ cmds[i].kind = "delete" /\ cmds[i].phase = "mutResp"
    /\ IF cmds[i].mutOk
       THEN /\ posts' = RemoveId(posts, cmds[i].target)
            /\ success' = DeletedMsg
            /\ hist' = Synced(hist)
       ELSE UNCHANGED <<posts, success, hist>>
    /\ error' = ErrorAfterMutation(cmds[i])
    /\ cmds' = [cmds EXCEPT ![i] = AfterMutation(cmds[i])]
    /\ last' = EventOf("DeleteResponse", cmds[i])
    /\ UNCHANGED <<storage, nav, user, showModal, isLoading, store,
                   nextId>>

\* setPosts(userPosts) in the try block of getPosts, mutated: never applied
PostsAfterListStale(c) == posts

\* mutated: the response of a list overlapped by another call is dropped
PostsAfterListUnlessOverlapped(c) ==
    IF c.listOk /\ c.alone THEN UserPosts(c.data, user) ELSE posts

\* setPosts(userPosts) in the try block of getPosts; its catch block leaves
\* `posts` as it is
PostsAfterList(c) == IF c.listOk THEN UserPosts(c.data, user) ELSE posts

\* mutated: the finally blocks leave the error as getPosts found it
ErrorAfterListKeep(c) == error

\* The error getPosts leaves, then what the caller's finally block does to it:
\* handlePostSubmit runs setError(null) after the await.
ErrorAfterList(c) ==
    IF c.kind = "create" THEN Null
    ELSE IF c.listOk THEN error
    ELSE LoadFailedMsg

\* mutated: a count of the commands in flight instead of a flag
LoadingAfterListCounted(c) ==
    IF c.kind \in {"create", "delete"}
    THEN Cardinality({i \in InFlight : cmds[i].kind \in {"create", "delete"}}) > 1
    ELSE isLoading

\* mutated: setIsLoading(false) is reached only when the list came back ok
LoadingAfterListIfOk(c) ==
    IF c.kind \in {"create", "delete"} /\ c.listOk THEN FALSE ELSE isLoading

\* setIsLoading(false) at the end of both finally blocks; getPosts itself
\* leaves isLoading alone
LoadingAfterList(c) ==
    IF c.kind \in {"create", "delete"} THEN FALSE ELSE isLoading

\* mutated: a list that comes back ok resets the success message
SuccessAfterListCleared(c) == IF c.listOk THEN Null ELSE success

\* neither getPosts nor the finally blocks call setSuccess
SuccessAfterList(c) == success

\* getPosts from the GET's response on, then the rest of the caller's finally
\* block.
ListResponse(i) ==
    /\ cmds[i].phase = "listResp"
    /\ posts' = PostsAfterList(cmds[i])
    /\ error' = ErrorAfterList(cmds[i])
    /\ hist' = IF cmds[i].listOk
               THEN [Synced(hist) EXCEPT !.listOk = TRUE]
               ELSE [hist EXCEPT !.listOk = FALSE]
    /\ isLoading' = LoadingAfterList(cmds[i])
    /\ showModal' = IF cmds[i].kind = "create" THEN FALSE ELSE showModal
    /\ cmds' = [cmds EXCEPT ![i] = Done]
    /\ success' = SuccessAfterList(cmds[i])
    /\ last' = EventOf("ListResponse", cmds[i])
    /\ UNCHANGED <<storage, nav, user, store, nextId>>

(***************************************************************************)
(* Specifications                                                          *)
(***************************************************************************)
Server == \E i \in 1..Len(cmds) : ServePost(i) \/ ServeDelete(i) \/ ServeList(i)

Client ==
    \E i \in 1..Len(cmds) : PostResponse(i) \/ DeleteResponse(i) \/ ListResponse(i)

Next ==
    \/ MountRedirect
    \/ MountLoad
    \/ handleModalToggle
    \/ handlePostSubmit
    \/ handleDeletePost
    \/ Server
    \/ Client

Spec == Init /\ [][Next]_vars

\* One client that starts a command only when none is in flight.
NextSerial ==
    \/ MountRedirect
    \/ MountLoad
    \/ handleModalToggle
    \/ Idle /\ handlePostSubmit
    \/ Idle /\ handleDeletePost
    \/ Server
    \/ Client

SpecSerial == Init /\ [][NextSerial]_vars

\* The list alone, over every store of up to MaxListLen posts.
InitList == InitWith(Stores(MaxListLen, 1..MaxListTime)) /\ storage = "u1"

NextList ==
    \/ MountLoad
    \/ \E i \in 1..Len(cmds) : ServeList(i)
    \/ \E i \in 1..Len(cmds) : ListResponse(i)

SpecList == InitList /\ [][NextList]_vars

\* Every call that is sent or answered is eventually served or handled: the
\* store or the network ends each fetch, and the event loop runs each
\* continuation.  The view mounts over a store that holds one post.
InitLive == InitWith({<<Post(1, "u1", 1)>>})

SpecLive == InitLive /\ [][Next]_vars /\ WF_vars(Server) /\ WF_vars(Client)

\* Overlapping commands: the view as the mount's list left it, the user's one
\* post displayed and another user's post in the store, and up to MaxRaceCmds
\* commands started from there.
RaceStore == <<Post(1, "u1", 1), Post(2, "u2", 1)>>

InitRace ==
    /\ storage = "u1"
    /\ nav = "profile"
    /\ user = "u1"
    /\ posts = UserPosts(RaceStore, "u1")
    /\ showModal = FALSE
    /\ isLoading = FALSE
    /\ error = Null
    /\ success = Null
    /\ cmds = <<>>
    /\ store = RaceStore
    /\ nextId = Len(store) + 1
    /\ hist = [synced |-> TRUE, store |-> RaceStore, listOk |-> TRUE]
    /\ last = NoEvent

NextRace ==
    \/ handleModalToggle
    \/ SubmitWithin(MaxRaceCmds)
    \/ DeleteWithin(MaxRaceCmds)
    \/ Server
    \/ Client

SpecRace == InitRace /\ [][NextRace]_vars

(***************************************************************************)
(* Properties                                                              *)
(***************************************************************************)
\* The position of the post with id pid in s (ids are unique in a store).
PosOf(s, pid) == CHOOSE k \in 1..Len(s) : s[k].id = pid

\* result is the display list of user u for the store contents data: exactly
\* u's posts of data, most recent first, posts of one instant in store order.
IsDisplayOf(result, data, u) ==
    /\ Len(result) = Cardinality({k \in 1..Len(data) : data[k].userId = u})
    /\ \A k \in 1..Len(data) :
          data[k].userId = u => \E j \in 1..Len(result) : result[j] = data[k]
    /\ \A j \in 1..Len(result) :
          result[j].userId = u /\ \E k \in 1..Len(data) : data[k] = result[j]
    /\ \A a, b \in 1..Len(result) :
          a < b => /\ result[a].postedAt >= result[b].postedAt
                   /\ result[a].postedAt = result[b].postedAt
                        => PosOf(data, result[a].id) < PosOf(data, result[b].id)

\* The step completes call i: its list response is handled.
ListCompletes(i) == cmds[i].phase = "listResp" /\ cmds'[i].kind = "done"

\* The last step handled a list response.
ListDone == last.op = "ListResponse"

\* C1: every post held in `posts` has the current user's id as its userId,
\* whatever the store holds and whatever commands have run.
C1_OnlyOwnPosts == \A k \in 1..Len(posts) : posts[k].userId = user

C1_Witness ==
    /\ ListDone /\ last.kind # "list"
    /\ posts # <<>>
    /\ \E k \in 1..Len(store) : store[k].userId # user

\* C2 as stated: with commands issued one at a time, whenever no command is
\* in flight `posts` is the display list of the store as it was at the last
\* successful round trip, whichever calls failed.
C2_AsStated == (Idle /\ hist.synced) => IsDisplayOf(posts, hist.store, user)

\* C2 amended: with commands issued one at a time, whenever no command is in
\* flight and the most recent list fetch succeeded, `posts` is the display
\* list of the store.
C2_SyncedAfterList == (Idle /\ hist.listOk) => IsDisplayOf(posts, store, user)

C2_Witness ==
    /\ Idle /\ hist.listOk
    /\ ListDone /\ last.kind = "create" /\ last.mutOk
    /\ Len(posts) >= 2

\* C3: when the user's posts in a successful list response have pairwise
\* distinct postedAt, the resulting `posts` is strictly descending by
\* postedAt and is a permutation of the user's posts in the response.
C3_StrictlyDescending ==
    [][\A i \in 1..Len(cmds) :
         LET mine == FilterUser(cmds[i].data, user)
         IN  (/\ ListCompletes(i) /\ cmds[i].listOk
              /\ \A a, b \in 1..Len(mine) :
                    a # b => mine[a].postedAt # mine[b].postedAt)
             => /\ \A a, b \in 1..Len(posts') :
                      a < b => posts'[a].postedAt > posts'[b].postedAt
                /\ Len(posts') = Len(mine)
                /\ {posts'[k] : k \in 1..Len(posts')}
                     = {mine[k] : k \in 1..Len(mine)}]_vars

C3_Witness ==
    /\ ListDone /\ last.listOk
    /\ Len(posts) >= 3
    /\ \A a, b \in 1..Len(posts) : a < b => posts[a].postedAt > posts[b].postedAt
    /\ posts # FilterUser(store, user)

\* C4: posts of equal postedAt keep the relative order in which the list
\* response held them, for every response including the empty one.
C4_Stable ==
    [][\A i \in 1..Len(cmds) :
         LET mine == FilterUser(cmds[i].data, user)
         IN  (ListCompletes(i) /\ cmds[i].listOk)
             => /\ Len(posts') = Len(mine)
                /\ \A a, b \in 1..Len(posts') :
                      (a < b /\ posts'[a].postedAt = posts'[b].postedAt)
                        => PosOf(mine, posts'[a].id) < PosOf(mine, posts'[b].id)]_vars

C4_Witness ==
    /\ ListDone /\ last.listOk
    /\ Len(posts) >= 3
    /\ \E a, b \in 1..Len(posts) :
          /\ a < b /\ posts[a].postedAt = posts[b].postedAt
          /\ \E c \in 1..Len(posts) : posts[c].postedAt > posts[a].postedAt
    /\ posts # FilterUser(store, user)

\* C5: a createPost whose title or text is empty sets `error` to the
\* validation message, starts no network call, does not set isLoading and
\* leaves `posts` and the store unchanged.
C5_EmptyDraftRejected ==
    [][(/\ last'.op = "handlePostSubmit"
        /\ (last'.draft.title = <<>> \/ last'.draft.text = <<>>))
       => /\ error' = RequiredMsg
          /\ cmds' = cmds
          /\ ~isLoading'
          /\ posts' = posts
          /\ store' = store]_vars

C5_Witness ==
    /\ last.op = "handlePostSubmit"
    /\ last.draft.title = <<>> /\ last.draft.text # <<>>
    /\ error = RequiredMsg
    /\ posts # <<>>

\* String.prototype.trim on a field value: the whitespace at both ends goes.
RECURSIVE TrimStart(_)
TrimStart(str) ==
    IF str # <<>> /\ str[1] = " " THEN TrimStart(Tail(str)) ELSE str

RECURSIVE TrimEnd(_)
TrimEnd(str) ==
    IF str # <<>> /\ str[Len(str)] = " "
    THEN TrimEnd(SubSeq(str, 1, Len(str) - 1))
    ELSE str

Trim(str) == TrimEnd(TrimStart(str))

\* C6 as stated: a createPost whose title or text is empty after trimming is
\* rejected with the validation message and starts no call.
C6_AsStated ==
    [][(/\ last'.op = "handlePostSubmit"
        /\ (Trim(last'.draft.title) = <<>> \/ Trim(last'.draft.text) = <<>>))
       => /\ error' = RequiredMsg
          /\ cmds' = cmds]_vars

\* C7: when a createPost whose POST succeeded completes, and no other command
\* was in flight while it ran, the store-assigned post is in `posts`,
\* isLoading is false and `success` is non-null, whether or not the re-list
\* succeeded.
C7_CreatedPostShown ==
    (/\ ListDone /\ last.kind = "create" /\ last.mutOk /\ last.alone)
    => /\ \E k \in 1..Len(posts) :
             posts[k].id = last.target /\ posts[k].userId = user
       /\ ~isLoading
       /\ success # Null

C7_Witness ==
    /\ ListDone /\ last.kind = "create" /\ last.mutOk /\ last.alone
    /\ ~last.listOk
    /\ Len(posts) >= 2
    /\ last.target \in Ids(posts)

\* The step completes the deletePost that is call i.
DeleteCompletes(i) == cmds[i].kind = "delete" /\ ListCompletes(i)

\* C8 as stated: after a deletePost has completed isLoading is false, and
\* the post is absent from `posts` if and only if the DELETE succeeded and
\* the re-list succeeded and returned a list without the post.
C8_AsStated ==
    [][\A i \in 1..Len(cmds) :
         DeleteCompletes(i)
         => /\ ~isLoading'
            /\ (cmds[i].target \notin Ids(posts'))
                 <=> (/\ cmds[i].mutOk
                      /\ cmds[i].listOk
                      /\ cmds[i].target \notin Ids(cmds[i].data))]_vars

\* C8 amended: after a deletePost has completed isLoading is false.  When the
\* re-list succeeded `posts` is the display list of what it returned, so the
\* post is absent if and only if the returned list lacks it, and it does
\* whenever the DELETE succeeded.  When the re-list failed `posts` is left as
\* it was, so the post is absent if the DELETE succeeded and no other command
\* overlapped.  A DELETE that failed is still followed by the re-list.
C8_DeleteOutcome ==
    [][\A i \in 1..Len(cmds) :
         /\ DeleteCompletes(i)
            => /\ ~isLoading'
               /\ cmds[i].listOk
                    => /\ IsDisplayOf(posts', cmds[i].data, user)
                       /\ (cmds[i].target \notin Ids(posts'))
                            <=> (cmds[i].target \notin Ids(cmds[i].data))
               /\ ~cmds[i].listOk => posts' = posts
               /\ (cmds[i].mutOk /\ cmds[i].listOk)
                    => cmds[i].target \notin Ids(posts')
               /\ (cmds[i].mutOk /\ cmds[i].alone)
                    => cmds[i].target \notin Ids(posts')
         /\ (/\ cmds[i].kind = "delete" /\ cmds[i].phase = "mutResp"
             /\ cmds'[i].phase # "mutResp")
            => cmds'[i].phase = "listReq"]_vars

C8_Witness ==
    /\ ListDone /\ last.kind = "delete"
    /\ last.mutOk /\ ~last.listOk
    /\ last.target \notin Ids(posts)
    /\ last.target \notin Ids(store)

\* C9 as stated: whenever a list fetch fails, the state it leaves has
\* error = "Failed to load posts." and an empty post list.
C9_AsStated ==
    (ListDone /\ ~last.listOk) => (error = LoadFailedMsg /\ posts = <<>>)

\* C9 amended: a list fetch that fails leaves `posts` as it was; it leaves
\* error = "Failed to load posts." at initialization and as the re-list of a
\* deletePost, and error = null as the re-list of a createPost, whose finally
\* block clears the error after the fetch.
C9_FailedListKeepsPosts ==
    [][\A i \in 1..Len(cmds) :
         (ListCompletes(i) /\ ~cmds[i].listOk)
         => /\ posts' = posts
            /\ error' = IF cmds[i].kind = "create" THEN Null ELSE LoadFailedMsg]_vars

C9_Witness ==
    /\ ListDone /\ ~last.listOk /\ last.kind = "delete"
    /\ posts # <<>>
    /\ error = LoadFailedMsg

\* C10 as stated: a list fetch that succeeds sets `posts` to the filtered,
\* ordered result and leaves isLoading false, error null and success null.
C10_AsStated ==
    [][\A i \in 1..Len(cmds) :
         (ListCompletes(i) /\ cmds[i].listOk)
         => /\ IsDisplayOf(posts', cmds[i].data, user)
            /\ ~isLoading'
            /\ error' = Null
            /\ success' = Null]_vars

\* C10 amended: a list fetch that succeeds sets `posts` to the filtered,
\* ordered result and leaves `success` as it was; isLoading is set to false
\* when the fetch is the re-list of a createPost or deletePost and is left as
\* it was at initialization; error is set to null when the fetch is the
\* re-list of a createPost and is left as it was otherwise.
C10_SuccessfulList ==
    [][\A i \in 1..Len(cmds) :
         (ListCompletes(i) /\ cmds[i].listOk)
         => /\ IsDisplayOf(posts', cmds[i].data, user)
            /\ success' = success
            /\ isLoading' = IF cmds[i].kind = "list" THEN isLoading ELSE FALSE
            /\ error' = IF cmds[i].kind = "create" THEN Null ELSE error]_vars

C10_Witness ==
    /\ ListDone /\ last.listOk /\ last.kind = "delete"
    /\ error = RequiredMsg
    /\ posts # <<>>

(***************************************************************************)
(* C11..C20                                                                *)
(***************************************************************************)
\* The step is a createPost with a valid draft, or a deletePost, up to its
\* first await.
CommandStarts ==
    \/ last'.op = "handlePostSubmit" /\ ~DraftMissing(last'.draft)
    \/ last'.op = "handleDeletePost"

UserKinds == {"create", "delete"}

\* C11: every createPost with a valid draft and every deletePost sets
\* isLoading to true, and when every call is eventually answered and handled
\* isLoading eventually is false again, whatever the outcomes of the POST or
\* DELETE and of the re-list.
C11_LoadingEnds ==
    /\ [][CommandStarts => isLoading']_vars
    /\ isLoading ~> ~isLoading

C11_Witness ==
    /\ ListDone /\ last.kind \in UserKinds
    /\ ~last.mutOk /\ ~last.listOk
    /\ ~isLoading

\* The requests of one command, in order: the POST or DELETE is sent
\* ("mutReq"), answered ("mutResp"), the GET of the re-list is sent
\* ("listReq"), answered ("listResp"), and the command completes.
TraceSteps ==
    {<<"mutReq", "mutResp">>, <<"mutResp", "listReq">>,
     <<"listReq", "listResp">>, <<"listResp", "done">>}

\* C12: each createPost with a valid draft and each deletePost sends its
\* POST or DELETE once, never again after a failure, then sends one GET
\* whether the POST or DELETE succeeded or failed, and isLoading is cleared
\* only by a command whose re-list has been answered.
C12_RequestTrace ==
    [][/\ \A i \in 1..Len(cmds) :
            (cmds[i].kind \in UserKinds /\ cmds'[i].phase # cmds[i].phase)
            => <<cmds[i].phase, cmds'[i].phase>> \in TraceSteps
       /\ \A i \in (Len(cmds) + 1)..Len(cmds') :
            cmds'[i].kind \in UserKinds => cmds'[i].phase = "mutReq"
       /\ (isLoading /\ ~isLoading')
            => \E i \in 1..Len(cmds) :
                 cmds[i].kind \in UserKinds /\ ListCompletes(i)]_vars

C12_Witness ==
    /\ last.op \in {"PostResponse", "DeleteResponse"}
    /\ ~last.mutOk
    /\ \E i \in 1..Len(cmds) :
         /\ cmds[i].kind = last.kind
         /\ cmds[i].phase = "listReq"
         /\ ~cmds[i].mutOk

\* The call's own requests all succeeded.
AllOk(c) == c.listOk /\ (c.kind = "list" \/ c.mutOk)

\* C13 as stated: when an error is displayed and an operation (the initial
\* list, a createPost or a deletePost) then completes with all of its calls
\* succeeding, `error` is null afterwards.
C13_AsStated ==
    [][\A i \in 1..Len(cmds) :
         (ListCompletes(i) /\ AllOk(cmds[i]) /\ error # Null)
         => error' = Null]_vars

\* C13 amended: an ok POST or DELETE clears `error` when its response is
\* handled; a createPost leaves `error` null when it completes, whatever its
\* outcomes; a deletePost whose calls all succeed and which no other call
\* overlaps leaves `error` null when it completes; a list fetch that succeeds
\* at initialization leaves `error` as it was.
C13_ErrorCleared ==
    [][/\ \A i \in 1..Len(cmds) :
            (cmds[i].phase = "mutResp" /\ cmds'[i].phase = "listReq"
               /\ cmds[i].mutOk)
            => error' = Null
       /\ \A i \in 1..Len(cmds) :
            ListCompletes(i)
            => /\ cmds[i].kind = "create" => error' = Null
               /\ (cmds[i].kind = "delete" /\ AllOk(cmds[i]) /\ cmds[i].alone)
                    => error' = Null
               /\ (cmds[i].kind = "list" /\ AllOk(cmds[i]))
                    => error' = error]_vars

C13_Witness ==
    /\ last.op = "DeleteResponse" /\ last.mutOk /\ last.alone
    /\ last.hadError
    /\ error = Null

C15_LastResponseWins ==
    [][\A i \in 1..Len(cmds) :
         (ListCompletes(i) /\ cmds[i].listOk /\ ~cmds[i].alone)
         => IsDisplayOf(posts', cmds[i].data, user)]_vars

C15_Witness ==
    /\ Idle /\ ListDone
    /\ last.kind = "delete" /\ last.listOk /\ ~last.alone
    /\ \E k \in 1..Len(posts) : posts[k].id \notin Ids(store)

\* The id belongs to a post of user u wherever a post carries it.
OwnId(pid, u, s) == \A k \in 1..Len(s) : s[k].id = pid => s[k].userId = u

\* C16: a deletePost is started for the id of a post that `posts` holds at
\* that moment, a post of the current user; and while a DELETE is in flight
\* the store holds no other user's post under its id.
C16_DeletesOwnPosts ==
    /\ [][last'.op = "handleDeletePost"
           => LET c == cmds'[Len(cmds')] IN
                /\ c.kind = "delete"
                /\ \E k \in 1..Len(posts) :
                      posts[k].id = c.target /\ posts[k].userId = user]_vars
    /\ [](\A i \in 1..Len(cmds) :
            cmds[i].kind = "delete"
            => OwnId(cmds[i].target, user, store))

C16_Witness ==
    \E i \in 1..Len(cmds) :
       /\ cmds[i].kind = "delete" /\ cmds[i].phase = "mutReq"
       /\ cmds[i].target \in Ids(store)
       /\ \E k \in 1..Len(store) : store[k].userId # user

\* C17: when the stored identity is absent or cannot be parsed, the view
\* navigates to "/" and nothing else happens: `user` stays null, the profile
\* is never rendered and no call is ever started.
C17_NoIdentityNoRequest ==
    storage \in {Null, "corrupt"}
    => /\ user = Null
       /\ nav \in {"mounting", "/"}
       /\ cmds = <<>>
       /\ posts = <<>> /\ error = Null /\ success = Null /\ ~isLoading

C17_Witness ==
    /\ storage = "corrupt"
    /\ nav = "/"
    /\ store # <<>>

\* C18 as stated: while the POST of a createPost is in flight and no other
\* call is, `error` is null.
C18_AsStated ==
    \A i \in 1..Len(cmds) :
       (cmds[i].kind = "create" /\ cmds[i].phase \in {"mutReq", "mutResp"}
          /\ InFlight = {i})
       => error = Null

\* The createPost and deletePost commands in flight.
UserInFlight == {i \in InFlight : cmds[i].kind \in UserKinds}

\* C19 as stated: isLoading is true exactly when a createPost or deletePost
\* is in flight.
C19_AsStated == isLoading <=> UserInFlight # {}

\* C19 amended: isLoading is a flag, not a count: it is set when a createPost
\* or deletePost starts and cleared when any createPost or deletePost
\* completes, and nothing else changes it; so it is false whenever none is
\* in flight, and it is also false after the first of several overlapping
\* commands has completed.
C19_LoadingFlag ==
    /\ [](isLoading => UserInFlight # {})
    /\ [][/\ CommandStarts => isLoading'
          /\ \A i \in UserInFlight : (ListCompletes(i) => ~isLoading')
          /\ (isLoading' # isLoading)
               => (CommandStarts \/ \E j \in UserInFlight : ListCompletes(j))]_vars

C19_Witness ==
    /\ ListDone /\ last.kind \in UserKinds
    /\ ~isLoading
    /\ UserInFlight # {}

\* C20 as stated: when an ok POST response is handled, the new post is
\* prepended to the `posts` of that moment.
C20_AsStated ==
    [][\A i \in 1..Len(cmds) :
         (cmds[i].kind = "create" /\ cmds[i].phase = "mutResp"
            /\ cmds'[i].phase = "listReq" /\ cmds[i].mutOk)
         => posts' = <<cmds[i].added>> \o posts]_vars

\* An ok POST or DELETE response is handled in this step, and `success`
\* becomes its message.
SuccessSet ==
    \E i \in 1..Len(cmds) :
       /\ cmds[i].kind \in UserKinds /\ cmds[i].mutOk
       /\ cmds[i].phase = "mutResp" /\ cmds'[i].phase = "listReq"
       /\ success' = IF cmds[i].kind = "create" THEN AddedMsg ELSE DeletedMsg

\* C21: `success` is null until the first command is started, changes only
\* when an ok POST or DELETE response is handled, to that command's message,
\* and once non-null is never null again: a validation failure, a failed
\* create or delete and a list leave it as it is.
C21_SuccessMonotone ==
    /\ [](cmds = <<>> => success = Null)
    /\ [][/\ success' # success => SuccessSet
          /\ success # Null => success' # Null]_vars

C21_Witness ==
    /\ ListDone /\ last.kind = "delete"
    /\ ~last.mutOk /\ last.listOk
    /\ success = AddedMsg

====
